---- MODULE Spec2Model ----
(***************************************************************************)
(* Model of src/classification_app.py: the Streamlit annotation tool.      *)
(*                                                                         *)
(* The database holds two tables, classification_progress (the singleton   *)
(* ProgressRecord, read with .first()) and submissions (the append-only    *)
(* log).  Every user gesture starts one run of main(): the run loads the    *)
(* progress row, renders either the completion page or the classification  *)
(* page, and executes the handler of the button that was clicked.          *)
(* Each of get_progress, save_classification, update_progress and the      *)
(* reset block opens its own session and commits on its own.               *)
(*                                                                         *)
(* page and report are the view of the one browser session of Spec;        *)
(* session holds the position of each script run of SpecRace, where two    *)
(* browser sessions run main() at the same time.                           *)
(*                                                                         *)
(* The wall-clock columns (last_updated, timestamp) are not modelled.      *)
(***************************************************************************)
EXTENDS Integers, Sequences, FiniteSets, TLC

VARIABLES classification_progress, submissions, page, report, session

vars == <<classification_progress, submissions, page, report, session>>

\* ------------------------------------------------------------------ bounds
\* len(df): the number of rows of the CSV file
total_rows == 2
\* the submissions table is filled up to this many rows
MaxSubmissions == 2
\* total_skipped is driven up to this value
MaxSkipped == 2
\* script runs each of the concurrent sessions starts
MaxRuns == 1

\* ------------------------------------------------------------------ dataset
Alphabet == <<"a", "b", "c", "d", "e">>

\* the 'text' column of the CSV file, one string per row
Texts == [i \in 1 .. total_rows |-> Alphabet[((i - 1) % Len(Alphabet)) + 1]]

\* df.iloc[current_row] followed by str(row_data.get('text', '')): the
\* zero-based position current_row selects the row
df_text(current_row) == Texts[current_row + 1]

\* the four category literals passed to save_classification
Categories == {"religion", "gender", "language_caste", "normal"}

\* values a user may type into the "Jump to row" input
JumpInputs == (0 - 1) .. (total_rows + 1)

\* ------------------------------------------------------------------ tables
\* row of classification_progress as created by get_progress
ClassificationProgress(current_row, total_processed, total_skipped) ==
    [current_row |-> current_row,
     total_processed |-> total_processed,
     total_skipped |-> total_skipped]

Submission_swapped(id, text, category) ==
    [id |-> id, text |-> category, category |-> text,
     platform |-> "Reddit", status |-> "pending"]

\* row of submissions as created by save_classification
Submission(id, text, category) ==
    [id |-> id, text |-> text, category |-> category,
     platform |-> "Reddit", status |-> "pending"]

get_progress_always_insert(table) ==
    Append(table, ClassificationProgress(0, 0, 0))

\* get_progress: session.query(ClassificationProgress).first(), creating the
\* zeroed row when the table is empty; the table afterwards
get_progress(table) ==
    IF table = <<>>
    THEN <<ClassificationProgress(0, 0, 0)>>
    ELSE table

update_progress_keeps_cursor(table, current_row, increment_processed, increment_skipped, db_ok) ==
    IF db_ok /\ table # <<>>
    THEN [table |-> [table EXCEPT ![1] =
                       [current_row |-> @.current_row,
                        total_processed |->
                            IF increment_processed THEN @.total_processed + 1
                                                   ELSE @.total_processed,
                        total_skipped |->
                            IF increment_skipped THEN @.total_skipped + 1
                                                 ELSE @.total_skipped]],
          ret |-> TRUE]
    ELSE [table |-> table, ret |-> FALSE]

update_progress_relative(table, current_row, increment_processed, increment_skipped, db_ok) ==
    IF db_ok /\ table # <<>>
    THEN [table |-> [table EXCEPT ![1] =
                       [current_row |-> @.current_row + 1,
                        total_processed |->
                            IF increment_processed THEN @.total_processed + 1
                                                   ELSE @.total_processed,
                        total_skipped |->
                            IF increment_skipped THEN @.total_skipped + 1
                                                 ELSE @.total_skipped]],
          ret |-> TRUE]
    ELSE [table |-> table, ret |-> FALSE]

update_progress_partial(table, current_row, increment_processed, increment_skipped, db_ok) ==
    IF table # <<>>
    THEN IF db_ok
         THEN [table |-> [table EXCEPT ![1] =
                            [current_row |-> current_row,
                             total_processed |->
                                 IF increment_processed THEN @.total_processed + 1
                                                        ELSE @.total_processed,
                             total_skipped |->
                                 IF increment_skipped THEN @.total_skipped + 1
                                                      ELSE @.total_skipped]],
               ret |-> TRUE]
         ELSE [table |-> [table EXCEPT ![1].current_row = current_row], ret |-> FALSE]
    ELSE [table |-> table, ret |-> FALSE]

update_progress_default_processed(table, current_row, increment_processed, increment_skipped, db_ok) ==
    IF db_ok /\ table # <<>>
    THEN [table |-> [table EXCEPT ![1] =
                       [current_row |-> current_row,
                        total_processed |->
                            IF ~increment_skipped THEN @.total_processed + 1
                                                  ELSE @.total_processed,
                        total_skipped |->
                            IF increment_skipped THEN @.total_skipped + 1
                                                 ELSE @.total_skipped]],
          ret |-> TRUE]
    ELSE [table |-> table, ret |-> FALSE]

update_progress_commit_then_fail(table, current_row, increment_processed, increment_skipped, db_ok) ==
    IF table # <<>>
    THEN [table |-> [table EXCEPT ![1] =
                       [current_row |-> current_row,
                        total_processed |->
                            IF increment_processed THEN @.total_processed + 1
                                                   ELSE @.total_processed,
                        total_skipped |->
                            IF increment_skipped THEN @.total_skipped + 1
                                                 ELSE @.total_skipped]],
          ret |-> db_ok]
    ELSE [table |-> table, ret |-> FALSE]

update_progress_nocount(table, current_row, increment_processed, increment_skipped, db_ok) ==
    IF db_ok /\ table # <<>>
    THEN [table |-> [table EXCEPT ![1].current_row = current_row], ret |-> TRUE]
    ELSE [table |-> table, ret |-> FALSE]

\* update_progress: the first row gets the new cursor and the requested
\* increments in one commit; a database error rolls back and returns False
update_progress(table, current_row, increment_processed, increment_skipped, db_ok) ==
    IF db_ok /\ table # <<>>
    THEN [table |-> [table EXCEPT ![1] =
                       [current_row |-> current_row,
                        total_processed |->
                            IF increment_processed THEN @.total_processed + 1
                                                   ELSE @.total_processed,
                        total_skipped |->
                            IF increment_skipped THEN @.total_skipped + 1
                                                 ELSE @.total_skipped]],
          ret |-> TRUE]
    ELSE [table |-> table, ret |-> FALSE]

save_classification_upsert(table, text, category, db_ok) ==
    IF db_ok
    THEN IF \E i \in 1 .. Len(table) : table[i].text = text
         THEN [table |-> [table EXCEPT
                            ![CHOOSE i \in 1 .. Len(table) : table[i].text = text].category
                                = category],
               ret |-> TRUE]
         ELSE [table |-> Append(table, Submission(Len(table) + 1, text, category)),
               ret |-> TRUE]
    ELSE [table |-> table, ret |-> FALSE]

save_classification_lies(table, text, category, db_ok) ==
    IF db_ok
    THEN [table |-> Append(table, Submission(Len(table) + 1, text, category)),
          ret |-> TRUE]
    ELSE [table |-> table, ret |-> TRUE]

save_classification_wrongtext(table, text, category, db_ok) ==
    IF db_ok
    THEN [table |-> Append(table, Submission(Len(table) + 1, category, category)),
          ret |-> TRUE]
    ELSE [table |-> table, ret |-> FALSE]

\* save_classification: one INSERT and commit; a database error rolls back
\* and returns False
save_classification(table, text, category, db_ok) ==
    IF db_ok
    THEN [table |-> Append(table, Submission(Len(table) + 1, text, category)),
          ret |-> TRUE]
    ELSE [table |-> table, ret |-> FALSE]

reset_progress_keeps_skipped(table, db_ok) ==
    IF db_ok /\ table # <<>>
    THEN [table EXCEPT ![1] = ClassificationProgress(0, 0, @.total_skipped)]
    ELSE table

reset_progress_cursor_only(table, db_ok) ==
    IF db_ok /\ table # <<>>
    THEN [table EXCEPT ![1].current_row = 0]
    ELSE table

\* the body of the reset button: zero the first row and commit
reset_progress(table, db_ok) ==
    IF db_ok /\ table # <<>>
    THEN [table EXCEPT ![1] = ClassificationProgress(0, 0, 0)]
    ELSE table

get_statistics_all(submissions_table, progress_table, db_ok) ==
    IF db_ok
    THEN [stats |-> [category \in Categories |->
                        Cardinality({i \in 1 .. Len(submissions_table) :
                                        submissions_table[i].category = category})],
          progress |-> progress_table]
    ELSE [stats |-> <<>>, progress |-> <<>>]

\* get_statistics: SELECT category, count(id) ... GROUP BY category as a
\* mapping over the categories that occur, and the rows .first() sees of the
\* progress table; a database error yields ({}, None)
get_statistics(submissions_table, progress_table, db_ok) ==
    IF db_ok
    THEN [stats |-> [category \in {submissions_table[i].category :
                                      i \in 1 .. Len(submissions_table)} |->
                        Cardinality({i \in 1 .. Len(submissions_table) :
                                        submissions_table[i].category = category})],
          progress |-> progress_table]
    ELSE [stats |-> <<>>, progress |-> <<>>]

\* ------------------------------------------------------------------ page
render_late(current_row) ==
    IF current_row > total_rows THEN "complete" ELSE "classify"

\* main's branch on current_row >= total_rows: which page a run renders
render(current_row) ==
    IF current_row >= total_rows THEN "complete" ELSE "classify"

widgets_skip_everywhere(pg) ==
    IF pg = "complete" THEN {"reset", "skip"}
    ELSE IF pg = "classify" THEN Categories \cup {"skip", "go"}
    ELSE {}

\* the buttons a rendered page carries: the completion branch returns after
\* the reset button, the classification page has the five action buttons and
\* the sidebar's Go
widgets(pg) ==
    IF pg = "complete" THEN {"reset"}
    ELSE IF pg = "classify" THEN Categories \cup {"skip", "go"}
    ELSE {}

number_input_nomin(min_value, max_value, typed) ==
    typed <= max_value

number_input_wide(min_value, max_value, typed) ==
    typed \in min_value .. (max_value + 1)

\* st.number_input(min_value=0, max_value=total_rows-1): the widget takes a
\* typed value only inside its bounds
number_input(min_value, max_value, typed) ==
    typed \in min_value .. max_value

\* what a run shows for the clicked button: the success messages name the
\* category ("Saved as ...") or the row ("Progress updated: Row ..."), the
\* error messages name neither; a refused jump leaves the typed value in the
\* input
Report(op, arg, result) == [op |-> op, arg |-> arg, result |-> result]

\* ------------------------------------------------------------------ state
\* the browser sessions
Sessions == {1, 2}

\* no script run has started in any session
SessionIdle ==
    [s \in Sessions |->
        [pc |-> "idle", current_row |-> 0, progress |-> <<>>,
         result |-> "none", runs |-> 0]]

Init ==
    /\ classification_progress = <<>>
    /\ submissions = <<>>
    /\ page = "none"
    /\ report = Report("none", "", "none")
    /\ session = SessionIdle

\* the cursor a run reads after get_progress
LoadedRow == get_progress(classification_progress)[1].current_row

\* A run of main() without a clicked button (first visit, browser refresh):
\* get_progress creates the row if needed, the page is rendered.
Run ==
    /\ classification_progress' = get_progress(classification_progress)
    /\ page' = render(classification_progress'[1].current_row)
    /\ report' = Report("view", "", "ok")
    /\ UNCHANGED <<submissions, session>>

\* A run whose get_progress raises SQLAlchemyError: the exception leaves
\* main(), nothing is rendered and nothing is written.
RunFails ==
    /\ page' = "none"
    /\ report' = Report("view", "", "db_error")
    /\ UNCHANGED <<classification_progress, submissions, session>>

\* One of the four classification buttons: save_classification, then
\* update_progress(current_row + 1, increment_processed=True), then st.rerun().
\* update is "ok", "db_error" (update_progress returns False) or
\* "interrupted" (the process or the script run is stopped after
\* save_classification has committed and before update_progress commits).
Classify ==
    \E category \in Categories, save_ok \in BOOLEAN,
       update \in {"ok", "db_error", "interrupted"} :
        LET current_row == LoadedRow
            text == df_text(current_row)
            saved == save_classification(submissions, text, category, save_ok)
            updated == update_progress(classification_progress, current_row + 1,
                                       TRUE, FALSE, update = "ok")
        IN  /\ category \in widgets(page)
            /\ category \in widgets(render(current_row))
            /\ Len(submissions) < MaxSubmissions
            /\ UNCHANGED session
            /\ submissions' = saved.table
            /\ IF ~saved.ret
               THEN /\ UNCHANGED <<classification_progress, page>>
                    /\ report' = Report("classify", "", "save_failed")
               ELSE IF update = "interrupted"
               THEN /\ UNCHANGED <<classification_progress, page>>
                    /\ report' = Report("classify", "", "interrupted")
               ELSE /\ classification_progress' = updated.table
                    /\ IF updated.ret
                       THEN /\ page' = render(classification_progress'[1].current_row)
                            /\ report' = Report("classify", category, "success")
                       ELSE /\ UNCHANGED page
                            /\ report' = Report("classify", "", "progress_failed")

\* The Delete/Skip button: update_progress(current_row + 1,
\* increment_skipped=True), then st.rerun().
Skip ==
    \E db_ok \in BOOLEAN :
        LET current_row == LoadedRow
            updated == update_progress(classification_progress, current_row + 1,
                                       FALSE, TRUE, db_ok)
        IN  /\ "skip" \in widgets(page)
            /\ "skip" \in widgets(render(current_row))
            /\ classification_progress[1].total_skipped < MaxSkipped
            /\ classification_progress' = updated.table
            /\ IF updated.ret
               THEN /\ page' = render(classification_progress'[1].current_row)
                    /\ report' = Report("skip", "", "success")
               ELSE /\ UNCHANGED page
                    /\ report' = Report("skip", "", "db_error")
            /\ UNCHANGED <<submissions, session>>

\* The sidebar's jump: the number input takes the typed row only inside
\* [0, total_rows - 1]; Go calls update_progress(jump_to), ignores its result
\* and reruns.
Go ==
    \E typed \in JumpInputs, db_ok \in BOOLEAN :
        LET current_row == LoadedRow
            updated == update_progress(classification_progress, typed,
                                       FALSE, FALSE, db_ok)
        IN  /\ "go" \in widgets(page)
            /\ "go" \in widgets(render(current_row))
            /\ IF ~number_input(0, total_rows - 1, typed)
               THEN /\ UNCHANGED <<classification_progress, page>>
                    /\ report' = Report("go", typed, "out_of_range")
               ELSE /\ classification_progress' = updated.table
                    /\ page' = render(classification_progress'[1].current_row)
                    /\ report' = IF updated.ret
                                 THEN Report("go", typed, "success")
                                 ELSE Report("go", "", "db_error")
            /\ UNCHANGED <<submissions, session>>

\* The Reset Progress button of the completion page.
Reset ==
    \E db_ok \in BOOLEAN :
        LET current_row == LoadedRow
        IN  /\ "reset" \in widgets(page)
            /\ "reset" \in widgets(render(current_row))
            /\ classification_progress' = reset_progress(classification_progress, db_ok)
            /\ IF db_ok
               THEN /\ page' = render(classification_progress'[1].current_row)
                    /\ report' = Report("reset", "", "success")
               ELSE /\ UNCHANGED page
                    /\ report' = Report("reset", "", "db_error")
            /\ UNCHANGED <<submissions, session>>

Next == Run \/ RunFails \/ Classify \/ Skip \/ Go \/ Reset

Spec == Init /\ [][Next]_vars

\* the session in which the jump is never used
NextNoJump == Run \/ RunFails \/ Classify \/ Skip \/ Reset

SpecNoJump == Init /\ [][NextNoJump]_vars

\* category arguments a caller may hand to save_classification: the four
\* literals of the buttons and one string outside them
CategoryInputs == Categories \cup {"other"}

\* A direct call save_classification(text, category): the function takes any
\* string as category.
SaveCall ==
    \E i \in 1 .. total_rows, category \in CategoryInputs, db_ok \in BOOLEAN :
        LET saved == save_classification(submissions, Texts[i], category, db_ok)
        IN  /\ Len(submissions) < MaxSubmissions
            /\ submissions' = saved.table
            /\ report' = Report("save", category,
                                IF saved.ret THEN "success" ELSE "db_error")
            /\ UNCHANGED <<classification_progress, page, session>>

\* save_classification applied to inputs drawn from CategoryInputs
SpecSave == Init /\ [][SaveCall]_vars

\* a classification whose two writes succeed, a skip whose write succeeds
ClassifyOk == Classify /\ report'.result = "success"

SkipOk == Skip /\ report'.result = "success"

\* A session resumed on a rendered page with the cursor at any row: the
\* counters are those left by a reset, at most one skip and jumps, and the
\* store holds no record or one record of an earlier pass.
InitForward ==
    \E n \in 0 .. total_rows, s \in 0 .. 1 :
        /\ (n = total_rows => s = 1)
        /\ classification_progress = <<ClassificationProgress(n, 0, s)>>
        /\ submissions \in {<<>>} \cup {<<Submission(1, Texts[1], c)>> : c \in Categories}
        /\ page = render(n)
        /\ report = Report("view", "", "ok")
        /\ session = SessionIdle

NextForward == ClassifyOk \/ SkipOk

\* only classify and skip, every write succeeding, the labeler keeps acting
SpecForward == InitForward /\ [][NextForward]_vars /\ WF_vars(NextForward)

\* ------------------------------------------------------------------ race
\* Two browser sessions on the same database.  A run of main() is taken in
\* the steps in which it touches the database: the load of get_progress, the
\* commit of save_classification, the query of update_progress and the commit
\* of update_progress.  The progress row exists (a first visit has been made).
InitRace ==
    /\ classification_progress = <<ClassificationProgress(0, 0, 0)>>
    /\ submissions = <<>>
    /\ page = render(0)
    /\ report = Report("view", "", "ok")
    /\ session = SessionIdle

\* A classification button is clicked in session s: the run starts and
\* get_progress loads the row; on the completion page no handler follows.
RLoad(s) ==
    /\ session[s].pc \in {"idle", "done"}
    /\ session[s].runs < MaxRuns
    /\ LET progress == get_progress(classification_progress)[1]
       IN  session' = [session EXCEPT ![s] =
               [pc |-> IF render(progress.current_row) = "classify"
                       THEN "loaded" ELSE "done",
                current_row |-> progress.current_row,
                progress |-> <<>>,
                result |-> "none",
                runs |-> @.runs + 1]]
    /\ UNCHANGED <<classification_progress, submissions, page, report>>

\* save_classification(text, category) of the run of session s
RSave(s) ==
    \E category \in Categories, db_ok \in BOOLEAN :
        LET saved == save_classification(submissions,
                                         df_text(session[s].current_row),
                                         category, db_ok)
        IN  /\ session[s].pc = "loaded"
            /\ Len(submissions) < MaxSubmissions
            /\ submissions' = saved.table
            /\ session' = [session EXCEPT ![s].pc =
                               IF saved.ret THEN "saved" ELSE "done",
                                          ![s].result =
                               IF saved.ret THEN "none" ELSE "save_failed"]
            /\ UNCHANGED <<classification_progress, page, report>>

\* update_progress of session s reads the row: session.query(...).first()
RQuery(s) ==
    /\ session[s].pc = "saved"
    /\ session' = [session EXCEPT ![s].pc = "queried",
                                  ![s].progress = <<classification_progress[1]>>]
    /\ UNCHANGED <<classification_progress, submissions, page, report>>

\* update_progress of session s sets current_row and total_processed on the
\* row it has read and commits them
RCommit(s) ==
    \E db_ok \in BOOLEAN :
        LET updated == update_progress(session[s].progress,
                                       session[s].current_row + 1,
                                       TRUE, FALSE, db_ok)
        IN  /\ session[s].pc = "queried"
            /\ classification_progress' =
                   IF updated.ret
                   THEN [classification_progress EXCEPT
                            ![1].current_row = updated.table[1].current_row,
                            ![1].total_processed = updated.table[1].total_processed]
                   ELSE classification_progress
            /\ session' = [session EXCEPT ![s].pc = "done",
                                          ![s].progress = <<>>,
                                          ![s].result =
                               IF updated.ret THEN "success" ELSE "progress_failed"]
            /\ UNCHANGED <<submissions, page, report>>

NextRace == \E s \in Sessions : RLoad(s) \/ RSave(s) \/ RQuery(s) \/ RCommit(s)

SpecRace == InitRace /\ [][NextRace]_vars

\* ------------------------------------------------------------------ claims
\* the fields of the ProgressRecord (defined once the row exists)
Cursor == classification_progress[1].current_row
Processed == classification_progress[1].total_processed
Skipped == classification_progress[1].total_skipped

\* a step that appends exactly one record with the given text and category
AppendsOne(text, category) ==
    /\ Len(submissions') = Len(submissions) + 1
    /\ SubSeq(submissions', 1, Len(submissions)) = submissions
    /\ submissions'[Len(submissions')].text = text
    /\ submissions'[Len(submissions')].category = category

\* C1: a classify(category) whose two store writes succeed, taken with
\* current_row = n < total_rows, appends exactly one record holding the text of
\* item n and the given category, sets current_row to n + 1, adds 1 to
\* total_processed and leaves total_skipped alone.
C1_ClassifySuccess ==
    [][(report'.op = "classify" /\ report'.result = "success") =>
          /\ Cursor < total_rows
          /\ report'.arg \in Categories
          /\ AppendsOne(Texts[Cursor + 1], report'.arg)
          /\ Cursor' = Cursor + 1
          /\ Processed' = Processed + 1
          /\ Skipped' = Skipped]_vars

\* a classification of the last item has succeeded
C1_Witness ==
    /\ report.op = "classify" /\ report.result = "success"
    /\ Cursor = total_rows
    /\ submissions[Len(submissions)].text = Texts[total_rows]

\* C2: a successful skip() taken with current_row = n < total_rows sets
\* current_row to n + 1, adds 1 to total_skipped, leaves total_processed alone
\* and leaves the submissions table as it was.
C2_SkipSuccess ==
    [][(report'.op = "skip" /\ report'.result = "success") =>
          /\ Cursor < total_rows
          /\ Cursor' = Cursor + 1
          /\ Skipped' = Skipped + 1
          /\ Processed' = Processed
          /\ submissions' = submissions]_vars

\* a skip has succeeded while a submission was already stored
C2_Witness ==
    /\ report.op = "skip" /\ report.result = "success"
    /\ Skipped >= 1
    /\ Len(submissions) >= 1

\* C3: a successful reset() zeroes current_row, total_processed and
\* total_skipped and leaves the submissions table as it was.
C3_ResetSuccess ==
    [][(report'.op = "reset" /\ report'.result = "success") =>
          /\ Cursor' = 0
          /\ Processed' = 0
          /\ Skipped' = 0
          /\ submissions' = submissions]_vars

\* a reset has succeeded with submissions in the store
C3_Witness ==
    /\ report.op = "reset" /\ report.result = "success"
    /\ Len(submissions) >= 1
    /\ Cursor = 0

\* C4: a successful jumpTo(row) with 0 <= row < total_rows sets current_row to
\* row and leaves both counters and the submissions table as they were.
C4_JumpInRange ==
    [][(/\ report'.op = "go" /\ report'.result = "success"
        /\ report'.arg \in 0 .. (total_rows - 1)) =>
          /\ Cursor' = report'.arg
          /\ Processed' = Processed
          /\ Skipped' = Skipped
          /\ submissions' = submissions]_vars

\* a jump to the last row has succeeded after counted work
C4_Witness ==
    /\ report.op = "go" /\ report.result = "success" /\ report.arg = total_rows - 1
    /\ Cursor = total_rows - 1
    /\ Processed + Skipped >= 1
    /\ Processed + Skipped # Cursor

\* C5: a jumpTo(row) with row < 0 or row >= total_rows is refused as out of
\* range and leaves the ProgressRecord and the submissions table as they were;
\* no jump to such a row ever succeeds.
C5_JumpOutOfRange ==
    [][(/\ report'.op = "go"
        /\ report'.result \in {"success", "out_of_range"}
        /\ report'.arg \notin 0 .. (total_rows - 1)) =>
          /\ report'.result = "out_of_range"
          /\ classification_progress' = classification_progress
          /\ submissions' = submissions]_vars

\* a jump to row total_rows + 1 has been refused
C5_Witness ==
    /\ report.op = "go" /\ report.result = "out_of_range" /\ report.arg = total_rows + 1
    /\ Cursor < total_rows

\* C6: once current_row >= total_rows every run renders the completion page,
\* and the cursor gets below total_rows again only by a successful reset() or
\* jumpTo().
C6_CompleteUntilReset ==
    [][(/\ classification_progress # <<>>
        /\ Cursor >= total_rows
        /\ ~(report'.op \in {"reset", "go"} /\ report'.result = "success")) =>
          /\ Cursor' >= total_rows
          /\ page' \in {"complete", "none"}
          /\ (report'.result # "db_error" => page' = "complete")]_vars

\* a plain run has rendered the completion page
C6_Witness ==
    /\ classification_progress # <<>>
    /\ Cursor >= total_rows
    /\ report.op = "view" /\ report.result = "ok"
    /\ page = "complete"

\* C7: with current_row >= total_rows the only operation that can be taken
\* besides viewing is reset(): no classify, skip or jumpTo step occurs, and
\* the ProgressRecord and the submissions table stay fixed until a reset
\* succeeds.
C7_CompleteOnlyReset ==
    [][(classification_progress # <<>> /\ Cursor >= total_rows) =>
          /\ report'.op \in {"view", "reset"}
          /\ (~(report'.op = "reset" /\ report'.result = "success") =>
                /\ classification_progress' = classification_progress
                /\ submissions' = submissions)]_vars

\* a reset has failed on the completion page, which is still shown
C7_Witness ==
    /\ classification_progress # <<>>
    /\ Cursor >= total_rows
    /\ report.op = "reset" /\ report.result = "db_error"
    /\ page = "complete"

\* C8: without jumps, every state reached from the empty store by classify,
\* skip and reset has current_row = total_processed + total_skipped.
C8_CursorIsSum ==
    classification_progress # <<>> => Cursor = Processed + Skipped

\* both counters have counted
C8_Witness ==
    /\ classification_progress # <<>>
    /\ Processed >= 1
    /\ Skipped >= 1
    /\ Cursor = Processed + Skipped

\* C9 as stated: a classify that ends after the submission commit and before
\* the progress commit leaves a ProgressRecord with
\* current_row # total_processed + total_skipped.
C9_Original ==
    [][(/\ report'.op = "classify"
        /\ report'.result \in {"interrupted", "progress_failed"}) =>
          Cursor' # Processed' + Skipped']_vars

\* C9 (amended): such a classify leaves the ProgressRecord exactly as it was,
\* so the equation current_row = total_processed + total_skipped is kept; the
\* submissions table has one record more, which total_processed does not count.
C9_ProgressRecordKept ==
    [][(/\ report'.op = "classify"
        /\ report'.result \in {"interrupted", "progress_failed"}) =>
          /\ classification_progress' = classification_progress
          /\ (Cursor = Processed + Skipped => Cursor' = Processed' + Skipped')
          /\ Len(submissions') - Processed' = (Len(submissions) - Processed) + 1]_vars

\* a run was interrupted between the two commits
C9_Witness ==
    /\ report.op = "classify" /\ report.result = "interrupted"
    /\ Len(submissions) > Processed
    /\ Cursor = Processed + Skipped

\* C10: when the submission write succeeds and the progress write fails, the
\* appended record stays, the ProgressRecord keeps its values, and the run
\* does not report success; conversely a step that appends a record without
\* touching the ProgressRecord never reports success.
C10_NoRollback ==
    [][/\ (report'.op = "classify" /\ report'.result = "progress_failed") =>
             /\ \E category \in Categories : AppendsOne(Texts[Cursor + 1], category)
             /\ classification_progress' = classification_progress
       /\ (/\ Len(submissions') = Len(submissions) + 1
           /\ classification_progress' = classification_progress) =>
             /\ report'.result \in {"progress_failed", "interrupted"}
             /\ page' = page]_vars

\* the progress write has failed after a stored submission
C10_Witness ==
    /\ report.op = "classify" /\ report.result = "progress_failed"
    /\ Len(submissions) = Processed + 1

\* the number of records of a submissions table that hold the given text
RecordsFor(table, text) ==
    Cardinality({i \in 1 .. Len(table) : table[i].text = text})

\* C11: a classify that reported a failure and is then repeated with the same
\* category until it succeeds leaves the stores as one successful classify
\* would: exactly one record more for the item than before the failed attempt
\* (so a retry after a failure that had already stored the record adds none).
C11_RetryIdempotent ==
    [][(/\ report.op = "classify"
        /\ report.result \in {"save_failed", "progress_failed", "interrupted"}
        /\ report'.op = "classify" /\ report'.result = "success"
        /\ (report.result # "save_failed" =>
               submissions[Len(submissions)].category = report'.arg)) =>
          RecordsFor(submissions', Texts[Cursor + 1]) =
              RecordsFor(submissions, Texts[Cursor + 1])
                  + (IF report.result = "save_failed" THEN 1 ELSE 0)]_vars

C13_RecordFields ==
    \A i \in 1 .. Len(submissions) :
        /\ submissions[i].category \in {"religion", "gender", "language_caste", "normal"}
        /\ submissions[i].platform = "Reddit"
        /\ submissions[i].status = "pending"

\* two records with different categories are stored
C13_Witness ==
    /\ Len(submissions) >= 2
    /\ submissions[1].category # submissions[2].category

\* C14: load() is a get-or-create: on the empty table it creates the one
\* zeroed row, on a table that has the row it returns it without writing, and
\* the table never holds more than one row.
C14_GetOrCreate ==
    [][/\ Len(classification_progress) <= 1
       /\ Len(classification_progress') <= 1
       /\ (classification_progress = <<>> /\ classification_progress' # <<>>) =>
             /\ report'.op = "view"
             /\ classification_progress' =
                    <<[current_row |-> 0, total_processed |-> 0, total_skipped |-> 0]>>
       /\ (classification_progress # <<>> /\ report'.op = "view") =>
             classification_progress' = classification_progress]_vars

\* a plain run has loaded a row that earlier operations had advanced
C14_Witness ==
    /\ report.op = "view" /\ report.result = "ok"
    /\ Len(classification_progress) = 1
    /\ Cursor >= 1
    /\ Processed >= 1

\* C16: the submissions table is append-only: every step keeps the earlier
\* sequence of records as a prefix of the later one, and only a classify step
\* extends it.
C16_AppendOnly ==
    [][/\ Len(submissions') >= Len(submissions)
       /\ SubSeq(submissions', 1, Len(submissions)) = submissions
       /\ (submissions' # submissions => report'.op = "classify")]_vars

\* the same item has been classified twice, both records are kept
C16_Witness ==
    /\ Len(submissions) >= 2
    /\ submissions[1].text = submissions[2].text
    /\ submissions[1].category # submissions[2].category

\* countsByCategory of the statistics shown in the current state
CountsByCategory == get_statistics(submissions, classification_progress, TRUE).stats

\* C17: countsByCategory maps exactly the categories that have records to the
\* number of records appended with them: it is empty on the empty store, an
\* appended record of category c adds 1 to the entry of c (creating it at 1,
\* so no entry is 0), and every other step that writes to the database, reset,
\* skip and jump included, leaves it as it was.
C17_CountsByCategory ==
    [][LET before == CountsByCategory
           after == CountsByCategory'
       IN  /\ (submissions = <<>> => DOMAIN before = {})
           /\ IF Len(submissions') = Len(submissions) + 1
              THEN LET c == submissions'[Len(submissions')].category
                   IN  /\ DOMAIN after = DOMAIN before \cup {c}
                       /\ \A d \in DOMAIN after :
                              /\ after[d] >= 1
                              /\ after[d] = (IF d \in DOMAIN before THEN before[d] ELSE 0)
                                                + (IF d = c THEN 1 ELSE 0)
              ELSE \/ /\ submissions' = submissions
                      /\ classification_progress' = classification_progress
                   \/ after = before]_vars

\* after a reset the counts still hold two categories while total_processed
\* is 0
C17_Witness ==
    /\ report.op = "reset" /\ report.result = "success"
    /\ Processed = 0
    /\ Cardinality(DOMAIN CountsByCategory) = 2
    /\ \A c \in DOMAIN CountsByCategory : CountsByCategory[c] = 1

\* C18: in every state of a session 0 <= current_row <= total_rows and both
\* counters are >= 0.
C18_CursorInRange ==
    classification_progress # <<>> =>
        /\ 0 <= Cursor /\ Cursor <= total_rows
        /\ Processed >= 0
        /\ Skipped >= 0

\* a jump to row total_rows has been refused on the last row
C18_Witness ==
    /\ report.op = "go" /\ report.result = "out_of_range" /\ report.arg = total_rows
    /\ Cursor = total_rows - 1

\* C19: classify attempts the progress write only after a successful
\* submission write: a failed submission write leaves both stores as they
\* were, total_processed grows only in a step that appends a record, and
\* total_processed never exceeds the number of records.
C19_SubmissionFirst ==
    [][/\ (classification_progress # <<>> => Processed <= Len(submissions))
       /\ (classification_progress' # <<>> => Processed' <= Len(submissions'))
       /\ (report'.op = "classify" /\ report'.result = "save_failed") =>
             /\ submissions' = submissions
             /\ classification_progress' = classification_progress
       /\ (classification_progress # <<>> /\ Processed' > Processed) =>
             Len(submissions') = Len(submissions) + 1]_vars

\* a submission write has failed after an earlier classification
C19_Witness ==
    /\ report.op = "classify" /\ report.result = "save_failed"
    /\ Len(submissions) >= 1
    /\ Processed = Len(submissions)

\* C20: with only classify and skip and every write succeeding, each action is
\* taken below total_rows and moves the cursor up by exactly 1 (one action is
\* counted per row), so from current_row = n the completion page is reached
\* after exactly total_rows - n actions; with the labeler acting fairly it is
\* eventually reached.
C20_ForwardProgress ==
    /\ [][/\ Cursor < total_rows
          /\ Cursor' = Cursor + 1
          /\ Processed' + Skipped' = Processed + Skipped + 1]_vars
    /\ <>(Cursor >= total_rows /\ page = "complete")

\* the completion page has been reached by a classification after a skip
C20_Witness ==
    /\ Cursor = total_rows
    /\ page = "complete"
    /\ report.op = "classify" /\ report.result = "success"
    /\ Skipped >= 1
    /\ Processed >= 1

\* C15: when both sessions have loaded the same current_row = n and both
\* classifications have succeeded, two records for item n are stored and
\* current_row is n + 1, not n + 2: the later progress write has overwritten
\* the earlier one with the same value.
C15_LastWriterWins ==
    (/\ \A s \in Sessions : session[s].pc = "done" /\ session[s].result = "success"
     /\ session[1].current_row = session[2].current_row) =>
        /\ Cursor = session[1].current_row + 1
        /\ RecordsFor(submissions, Texts[session[1].current_row + 1]) >= 2
        /\ Len(submissions) >= Cursor + 1

\* both sessions have classified item 0: two records, the cursor at 1
C15_Witness ==
    /\ \A s \in Sessions :
          /\ session[s].pc = "done" /\ session[s].result = "success"
          /\ session[s].current_row = 0
    /\ Len(submissions) = 2
    /\ submissions[1].text = Texts[1] /\ submissions[2].text = Texts[1]
    /\ Cursor = 1

====
